---- MODULE Spec2Model ----
(***************************************************************************)
(* experiments/logreg.py of dist-svgd: the command line driver `cli`, the  *)
(* worker body `run` (shard assignment, particle initialisation, sampler   *)
(* construction, the snapshot/step loop, the result file) and the worker   *)
(* processes it launches.  dsvgd.DistSampler and logreg_plots.make_plots   *)
(* are imported by the file; DistSampler.make_step is modelled from the    *)
(* design document (sections 4.3 and 5).                                   *)
(*                                                                         *)
(* Real-valued particles are abstracted to integers modulo ValMod (one     *)
(* coordinate per particle); the kernel and the score keep their shape     *)
(* (symmetric kernel, score = prior term + sum over the shard's rows).     *)
(***************************************************************************)
EXTENDS Integers, Sequences, FiniteSets, TLC

\* ---------------------------------------------------------------- bounds
MaxProc == 2
MaxParticles == 2
MaxIter == 2
MaxN == 2
ValMod == 3
MaxRows == 6
MaxShards == 4

\* --stepsize (line 102): the default, the unit steps are counted in
DefaultStep == 1

Modes == {"partitions", "all_particles", "all_scores"}

VARIABLES
    cfg,      \* the parsed command line: nproc, nparticles, niter, stepsize, exchange, sameObj
    dataset,  \* x_train/t_train: one value per training row (sequence of length N)
    seed,     \* rank -> the seed the worker's particles are drawn with
    dpc,      \* position of the driver (cli)
    sp,       \* number of worker processes started (loop of lines 121-124)
    jn,       \* number of worker processes joined (loop of lines 126-127)
    plotted,  \* make_plots has been called
    results,  \* files of RESULTS_DIR: records [rank, fresh]
    wpc,      \* rank -> position of the worker in init_distributed/run
    flags,    \* rank -> the DistSampler's configuration
    pop,      \* rank -> dist_sampler.particles
    l,        \* rank -> loop counter of line 75 (number of finished iterations)
    steps,    \* rank -> number of make_step calls
    msgs,     \* rank -> what the worker contributed to the exchanges, by round
    xdone,    \* rank -> number of exchanges the worker has completed
    data,     \* rank -> the rows appended to `data` (lines 81, 87)
    hist,     \* rank -> the populations after 0, 1, 2, ... make_step calls
    sh        \* shard-partition calculator state (ShardSpec)

drv == <<dpc, sp, jn, plotted>>
wrk == <<wpc, flags, pop, l, steps, msgs, xdone, data, hist>>
inp == <<cfg, dataset, seed>>
vars == <<cfg, dataset, seed, dpc, sp, jn, plotted, results, wpc, flags,
          pop, l, steps, msgs, xdone, data, hist, sh>>

Ranks == 0 .. (cfg.nproc - 1)

InlineTwoShards(nproc) ==
    IF nproc = 1 THEN 2 ELSE nproc

\* number of shards run() is called with: 1 on the in-process path (line 114),
\* the world size otherwise (line 95)
NumShardsOf(nproc) ==
    IF nproc = 1 THEN 1 ELSE nproc

RECURSIVE SumTo(_, _)
SumTo(s, n) ==
    IF n = 0 THEN 0 ELSE s[n] + SumTo(s, n - 1)

SumSeq(s) ==
    SumTo(s, Len(s))

\* the concatenation, in rank order, of num_shards sequences of length n:
\* parts is rank -> sequence
Concat(parts, num_shards, n) ==
    [j \in 1 .. (num_shards * n) |-> parts[(j - 1) \div n][((j - 1) % n) + 1]]

Abs(x) ==
    IF x < 0 THEN 0 - x ELSE x

\* ------------------------------------------------------- shard assignment
samples_per_shard_ceil(N, num_shards) ==
    (N + num_shards - 1) \div num_shards

\* samples_per_shard = int(x_train.shape[0] / num_shards)   (line 37)
samples_per_shard(N, num_shards) ==
    N \div num_shards

\* data_idx_range(rank)   (lines 43-45)
data_idx_range(N, num_shards, rank) ==
    <<samples_per_shard(N, num_shards) * rank,
      samples_per_shard(N, num_shards) * (rank + 1)>>

\* the row indices selected by x_train[start:end] on N rows (lines 51-52):
\* a Python slice is clamped to the rows that exist
SliceRows(N, range) ==
    {i \in 0 .. (N - 1) : range[1] <= i /\ i < range[2]}

\* the values of the rows of a slice, in row order
RECURSIVE LocalRows(_, _, _)
LocalRows(ds, from, to) ==
    IF from >= to \/ from >= Len(ds) THEN <<>>
    ELSE <<ds[from + 1]>> \o LocalRows(ds, from + 1, to)

\* ------------------------------------------------- log density and kernel
\* the score (gradient of logp, lines 47-59) of the worker bound to shard
\* `shardIdx` at particle x: the priors' term plus the sum over the shard's rows
score(ds, num_shards, shardIdx, x) ==
    LET range == data_idx_range(Len(ds), num_shards, shardIdx)
    IN  (0 - x) + SumSeq(LocalRows(ds, range[1], range[2]))

\* kernel(x, y) = exp(-dist(x, y)^2)   (lines 61-62), in quarters
kernel(x, y) ==
    LET dd == Abs(x - y)
    IN  IF dd = 0 THEN 4 ELSE IF dd = 1 THEN 1 ELSE 0

\* gradient of kernel(y, x) in y
grad_kernel(y, x) ==
    2 * (x - y) * kernel(y, x)

BoundShardZero(rank) ==
    0

\* the shard the sampler's log density is bound to: lambda x: logp(rank, x)   (line 69)
BoundShard(rank) ==
    rank

\* particles = cat([make_sample() for _ in range(nparticles)])   (lines 65-67),
\* drawn after torch.manual_seed (line 24)
InitialParticles(sd, nparticles) ==
    [i \in 1 .. nparticles |-> (2 * sd + i) % ValMod]

\* x_train of the benchmark file (lines 28-35), cut to n rows
BananaData(n) ==
    [i \in 1 .. n |-> IF i % 2 = 1 THEN 1 ELSE 0 - 1]

\* ------------------------------------------------ sampler configuration
ExchangeParticlesScoresOnly(exchange) ==
    exchange \in {"all_scores"}

ExchangeParticlesNotScores(exchange) ==
    exchange \in {"all_particles"}

\* exchange_particles=exchange in ['all_particles', 'all_scores']   (line 70)
ExchangeParticles(exchange) ==
    exchange \in {"all_particles", "all_scores"}

\* exchange_scores=exchange is 'all_scores'   (line 71): `is` compares object
\* identity; for two equal strings it is true only when the runtime hands
\* run() the very object of the literal (interning), which the language does
\* not promise; sameObj is that outcome
ExchangeScores(exchange, sameObj) ==
    exchange = "all_scores" /\ sameObj

NoFlags ==
    [constructed |-> FALSE, exchange_particles |-> FALSE, exchange_scores |-> FALSE]

\* dsvgd.DistSampler(rank, num_shards, logp, kernel, particles, ...)   (lines 69-72)
DistSampler(exchange, sameObj) ==
    [constructed |-> TRUE,
     exchange_particles |-> ExchangeParticles(exchange),
     exchange_scores |-> ExchangeScores(exchange, sameObj)]

\* ------------------------------------------------------- DistSampler.step
\* whether make_step communicates: the particles are exchanged, and peers exist
Exchanges(fl, num_shards) ==
    fl.exchange_particles /\ num_shards > 1

\* scores of the worker's own particles against the shard its logp is bound to
LocalScores(ds, num_shards, rank, particles) ==
    [i \in 1 .. Len(particles) |-> score(ds, num_shards, BoundShard(rank), particles[i])]

\* what a worker hands to the collective exchange
Contribution(fl, ds, num_shards, rank, particles) ==
    [particles |-> particles,
     scores |-> IF fl.exchange_scores
                THEN LocalScores(ds, num_shards, rank, particles)
                ELSE <<>>]

\* the comparison population Y of worker `rank` and the score attached to each
\* of its members; gathered: rank -> contribution of this round
ComparisonY(fl, num_shards, rank, particles, gathered) ==
    IF Exchanges(fl, num_shards)
    THEN Concat([p \in 0 .. (num_shards - 1) |-> gathered[p].particles],
                num_shards, Len(particles))
    ELSE particles

ComparisonScores(fl, ds, num_shards, rank, particles, gathered) ==
    IF Exchanges(fl, num_shards)
    THEN Concat([p \in 0 .. (num_shards - 1) |->
                    IF p = rank THEN LocalScores(ds, num_shards, rank, particles)
                    ELSE IF fl.exchange_scores THEN gathered[p].scores
                    ELSE [i \in 1 .. Len(particles) |-> 0]],
                num_shards, Len(particles))
    ELSE LocalScores(ds, num_shards, rank, particles)

\* x_i <- x_i + stepsize * (1/|Y|) * sum_y [kernel(y, x_i) * score(y) + grad kernel(y, x_i)]
RECURSIVE SumTerms(_, _, _, _)
SumTerms(x, Y, S, n) ==
    IF n = 0 THEN 0
    ELSE kernel(Y[n], x) * S[n] + grad_kernel(Y[n], x) + SumTerms(x, Y, S, n - 1)

SVGDUpdate(x, Y, S, stepsize) ==
    (x + ((stepsize * SumTerms(x, Y, S, Len(Y))) \div Len(Y))) % ValMod

StepPopulation(fl, ds, num_shards, rank, particles, gathered, stepsize) ==
    LET Y == ComparisonY(fl, num_shards, rank, particles, gathered)
        S == ComparisonScores(fl, ds, num_shards, rank, particles, gathered)
    IN  [i \in 1 .. Len(particles) |-> SVGDUpdate(particles[i], Y, S, stepsize)]

\* ----------------------------------------------------------- initial state
StaleFiles ==
    {[rank |-> 0, fresh |-> FALSE], [rank |-> MaxProc, fresh |-> FALSE]}

Configs ==
    {c \in [nproc : 0 .. MaxProc,
            nparticles : (0 - 1) .. MaxParticles,
            niter : (0 - 1) .. MaxIter,
            stepsize : {DefaultStep},
            exchange : Modes \cup {"bogus"},
            sameObj : BOOLEAN] :
        c.sameObj => c.exchange = "all_scores"}

WorkersIdle ==
    /\ wpc = [r \in Ranks |-> "notStarted"]
    /\ flags = [r \in Ranks |-> NoFlags]
    /\ pop = [r \in Ranks |-> <<>>]
    /\ l = [r \in Ranks |-> 0]
    /\ steps = [r \in Ranks |-> 0]
    /\ msgs = [r \in Ranks |-> <<>>]
    /\ xdone = [r \in Ranks |-> 0]
    /\ data = [r \in Ranks |-> <<>>]
    /\ hist = [r \in Ranks |-> <<>>]

Init ==
    /\ cfg \in Configs
    /\ dataset \in {BananaData(n) : n \in 0 .. MaxN}
    /\ seed = [r \in Ranks |-> r]
    /\ dpc = "start"
    /\ sp = 0
    /\ jn = 0
    /\ plotted = FALSE
    /\ results \in {{}, StaleFiles}
    /\ WorkersIdle
    /\ sh = <<>>

\* ------------------------------------------------------------ driver: cli
\* click.Choice refuses a value outside the three modes (line 103)
CliReject ==
    /\ dpc = "start"
    /\ cfg.exchange \notin Modes
    /\ dpc' = "usage"
    /\ UNCHANGED <<inp, sp, jn, plotted, results, wrk, sh>>

\* what rmtree + mkdir leave of the previous results (lines 109-111)
CleanedResults(old) ==
    {}

\* lines 109-114: clear the results, then run in-process (nproc = 1) or start
\* launching processes
CliClean ==
    /\ dpc = "start"
    /\ cfg.exchange \in Modes
    /\ results' = CleanedResults(results)
    /\ IF cfg.nproc = 1
       THEN /\ dpc' = "inline"
            /\ wpc' = [wpc EXCEPT ![0] = "setup"]
       ELSE /\ dpc' = IF cfg.nproc = 0 THEN "plots" ELSE "spawn"
            /\ UNCHANGED wpc
    /\ UNCHANGED <<inp, sp, jn, plotted, flags, pop, l, steps, msgs, xdone, data, hist, sh>>

\* lines 121-124: p = Process(target=init_distributed, ...); p.start()
Spawn ==
    /\ dpc = "spawn"
    /\ sp < cfg.nproc
    /\ wpc' = [wpc EXCEPT ![sp] = "init"]
    /\ sp' = sp + 1
    /\ dpc' = IF sp + 1 = cfg.nproc THEN "join" ELSE "spawn"
    /\ UNCHANGED <<inp, jn, plotted, results, flags, pop, l, steps, msgs, xdone, data, hist, sh>>

Terminated(r) ==
    wpc[r] \in {"exited", "failed"}

JoinWithoutWaiting(r) ==
    TRUE

\* whether p.join() of process r may return (lines 126-127)
JoinReady(r) ==
    Terminated(r)

Join ==
    /\ dpc = "join"
    /\ jn < cfg.nproc
    /\ JoinReady(jn)
    /\ jn' = jn + 1
    /\ dpc' = IF jn + 1 = cfg.nproc THEN "plots" ELSE "join"
    /\ UNCHANGED <<inp, sp, plotted, results, wrk, sh>>

\* line 114 returning: run(0, 1, ...) has finished in the driver's process
InlineReturn ==
    /\ dpc = "inline"
    /\ wpc[0] = "exited"
    /\ dpc' = "plots"
    /\ UNCHANGED <<inp, sp, jn, plotted, results, wrk, sh>>

\* line 114 raising: the exception of run leaves cli
InlineRaise ==
    /\ dpc = "inline"
    /\ wpc[0] = "failed"
    /\ dpc' = "crashed"
    /\ UNCHANGED <<inp, sp, jn, plotted, results, wrk, sh>>

\* line 129: make_plots(nproc, ...)
MakePlots ==
    /\ dpc = "plots"
    /\ plotted' = TRUE
    /\ dpc' = "done"
    /\ UNCHANGED <<inp, sp, jn, results, wrk, sh>>

\* ------------------------------------------- workers: init_distributed, run
NumShards ==
    NumShardsOf(cfg.nproc)

\* dist.init_process_group (line 92) returns once the whole group has joined
InitGroup(r) ==
    /\ wpc[r] = "init"
    /\ sp = cfg.nproc
    /\ wpc' = [wpc EXCEPT ![r] = "setup"]
    /\ UNCHANGED <<inp, drv, results, flags, pop, l, steps, msgs, xdone, data, hist, sh>>

\* lines 24-67: seed, data, priors, particles; torch.cat of an empty list raises
Setup(r) ==
    /\ wpc[r] = "setup"
    /\ IF cfg.nparticles <= 0
       THEN /\ wpc' = [wpc EXCEPT ![r] = "failed"]
            /\ UNCHANGED pop
       ELSE /\ wpc' = [wpc EXCEPT ![r] = "construct"]
            /\ pop' = [pop EXCEPT ![r] = InitialParticles(seed[r], cfg.nparticles)]
    /\ UNCHANGED <<inp, drv, results, flags, l, steps, msgs, xdone, data, hist, sh>>

\* lines 69-74: the sampler is constructed around the particles
Construct(r) ==
    /\ wpc[r] = "construct"
    /\ flags' = [flags EXCEPT ![r] = DistSampler(cfg.exchange, cfg.sameObj)]
    /\ hist' = [hist EXCEPT ![r] = <<pop[r]>>]
    /\ wpc' = [wpc EXCEPT ![r] = "loop"]
    /\ UNCHANGED <<inp, drv, results, pop, l, steps, msgs, xdone, data, sh>>

\* one pd.Series per particle, in population order (lines 80-81, 86-87)
SnapshotRows(timestep, particles) ==
    [i \in 1 .. Len(particles) |-> [timestep |-> timestep, value |-> particles[i]]]

FinalTimestepSame(lastL) ==
    lastL

\* the timestep of the rows written after the loop: l+1, l the last loop index (line 87)
FinalTimestep(lastL) ==
    lastL + 1

\* lines 75-83: the iteration's snapshot, then make_step is entered; a
\* communicating sampler hands its contribution to the collective and waits
LoopIter(r) ==
    /\ wpc[r] = "loop"
    /\ l[r] < cfg.niter
    /\ data' = [data EXCEPT ![r] = @ \o SnapshotRows(l[r], pop[r])]
    /\ steps' = [steps EXCEPT ![r] = @ + 1]
    /\ IF Exchanges(flags[r], NumShards)
       THEN /\ msgs' = [msgs EXCEPT ![r] =
                    Append(@, Contribution(flags[r], dataset, NumShards, r, pop[r]))]
            /\ wpc' = [wpc EXCEPT ![r] = "wait"]
       ELSE /\ UNCHANGED msgs
            /\ wpc' = [wpc EXCEPT ![r] = "update"]
    /\ UNCHANGED <<inp, drv, results, flags, pop, l, xdone, hist, sh>>

\* the collective returns once every worker has contributed to the round
ExchangeComplete(r) ==
    \A p \in 0 .. (NumShards - 1) : p \in Ranks /\ Len(msgs[p]) >= l[r] + 1

EndExchange(r) ==
    /\ wpc[r] = "wait"
    /\ ExchangeComplete(r)
    /\ xdone' = [xdone EXCEPT ![r] = @ + 1]
    /\ wpc' = [wpc EXCEPT ![r] = "update"]
    /\ UNCHANGED <<inp, drv, results, flags, pop, l, steps, msgs, data, hist, sh>>

\* the rest of make_step: the kernelised update of the local particles, in place
Update(r) ==
    /\ wpc[r] = "update"
    /\ LET gathered == IF Exchanges(flags[r], NumShards)
                       THEN [p \in 0 .. (NumShards - 1) |-> msgs[p][l[r] + 1]]
                       ELSE <<>>
           new == StepPopulation(flags[r], dataset, NumShards, r, pop[r], gathered,
                                 cfg.stepsize)
       IN  /\ pop' = [pop EXCEPT ![r] = new]
           /\ hist' = [hist EXCEPT ![r] = Append(@, new)]
    /\ l' = [l EXCEPT ![r] = @ + 1]
    /\ wpc' = [wpc EXCEPT ![r] = "loop"]
    /\ UNCHANGED <<inp, drv, results, flags, steps, msgs, xdone, data, sh>>

\* lines 85-87: the snapshot after the last update; with no iteration run the
\* name l is unbound and line 87 raises NameError
LoopExit(r) ==
    /\ wpc[r] = "loop"
    /\ l[r] >= cfg.niter
    /\ IF cfg.niter <= 0
       THEN /\ wpc' = [wpc EXCEPT ![r] = "failed"]
            /\ UNCHANGED data
       ELSE /\ data' = [data EXCEPT ![r] =
                    @ \o SnapshotRows(FinalTimestep(l[r] - 1), pop[r])]
            /\ wpc' = [wpc EXCEPT ![r] = "save"]
    /\ UNCHANGED <<inp, drv, results, flags, pop, l, steps, msgs, xdone, hist, sh>>

\* line 89: to_pickle(RESULTS_DIR/shard-<rank>.pkl), then run returns
Save(r) ==
    /\ wpc[r] = "save"
    /\ results' = {f \in results : f.rank # r} \cup {[rank |-> r, fresh |-> TRUE]}
    /\ wpc' = [wpc EXCEPT ![r] = "exited"]
    /\ UNCHANGED <<inp, drv, flags, pop, l, steps, msgs, xdone, data, hist, sh>>

\* an exception raised anywhere in run (a missing data file, a failed write,
\* a communication error) ends the worker
Fail(r) ==
    /\ wpc[r] \in {"setup", "construct", "loop", "wait", "update", "save"}
    /\ wpc' = [wpc EXCEPT ![r] = "failed"]
    /\ UNCHANGED <<inp, drv, results, flags, pop, l, steps, msgs, xdone, data, hist, sh>>

Next ==
    \/ CliReject
    \/ CliClean
    \/ Spawn
    \/ Join
    \/ InlineReturn
    \/ InlineRaise
    \/ MakePlots
    \/ \E r \in Ranks : InitGroup(r)
    \/ \E r \in Ranks : Setup(r)
    \/ \E r \in Ranks : Construct(r)
    \/ \E r \in Ranks : LoopIter(r)
    \/ \E r \in Ranks : EndExchange(r)
    \/ \E r \in Ranks : Update(r)
    \/ \E r \in Ranks : LoopExit(r)
    \/ \E r \in Ranks : Save(r)
    \/ \E r \in Ranks : Fail(r)

Spec ==
    Init /\ [][Next]_vars

\* The multi-process runs of a valid configuration in which no exception is
\* raised.  The operating system schedules the live processes: while some
\* process can take a step, a step is eventually taken (the weakest fairness;
\* fairness per process implies it).
LaunchInit ==
    /\ Init
    /\ cfg.nproc >= 2
    /\ cfg.nparticles >= 1
    /\ cfg.niter >= 1
    /\ cfg.exchange \in Modes
    /\ Len(dataset) \in {0, MaxN}
    /\ results = StaleFiles

LaunchNext ==
    \/ CliClean
    \/ Spawn
    \/ Join
    \/ MakePlots
    \/ \E r \in Ranks : InitGroup(r)
    \/ \E r \in Ranks : Setup(r)
    \/ \E r \in Ranks : Construct(r)
    \/ \E r \in Ranks : LoopIter(r)
    \/ \E r \in Ranks : EndExchange(r)
    \/ \E r \in Ranks : Update(r)
    \/ \E r \in Ranks : LoopExit(r)
    \/ \E r \in Ranks : Save(r)

FairSpec ==
    /\ LaunchInit
    /\ [][LaunchNext]_vars
    /\ WF_vars(LaunchNext)

\* ------------------------------------------------------------------------
\* The workers alone, from the point where every process has been started
\* and the group is initialised, over arbitrary seeds and training rows.
MaxSeed == 1

Datasets ==
    [1 .. MaxN -> {0 - 1, 1}]

ValidConfigs ==
    {c \in Configs : /\ c.nproc >= 1
                     /\ c.nparticles >= 1
                     /\ c.niter >= 1
                     /\ c.exchange \in Modes}

DataInit ==
    /\ cfg \in ValidConfigs
    /\ cfg.nproc \in {1, MaxProc}
    /\ cfg.nparticles = MaxParticles
    /\ cfg.niter = MaxIter
    /\ dataset \in Datasets
    /\ seed \in [Ranks -> {0, MaxSeed}]
    /\ dpc = IF cfg.nproc = 1 THEN "inline" ELSE "join"
    /\ sp = IF cfg.nproc = 1 THEN 0 ELSE cfg.nproc
    /\ jn = 0
    /\ plotted = FALSE
    /\ results = {}
    /\ wpc = [r \in Ranks |-> "setup"]
    /\ flags = [r \in Ranks |-> NoFlags]
    /\ pop = [r \in Ranks |-> <<>>]
    /\ l = [r \in Ranks |-> 0]
    /\ steps = [r \in Ranks |-> 0]
    /\ msgs = [r \in Ranks |-> <<>>]
    /\ xdone = [r \in Ranks |-> 0]
    /\ data = [r \in Ranks |-> <<>>]
    /\ hist = [r \in Ranks |-> <<>>]
    /\ sh = <<>>

DataNext ==
    \/ \E r \in Ranks : Setup(r)
    \/ \E r \in Ranks : Construct(r)
    \/ \E r \in Ranks : LoopIter(r)
    \/ \E r \in Ranks : EndExchange(r)
    \/ \E r \in Ranks : Update(r)
    \/ \E r \in Ranks : LoopExit(r)
    \/ \E r \in Ranks : Save(r)

DataSpec ==
    DataInit /\ [][DataNext]_vars

\* ------------------------------------------------------------------------
\* The shard assignment alone: data_idx_range and the slices of logp applied
\* rank by rank to a dataset of N rows cut into num_shards shards.
ShardInit ==
    /\ sh \in [N : 0 .. MaxRows, num_shards : 1 .. MaxShards, assigned : {{}}]
    /\ cfg = [nproc |-> 0, nparticles |-> 1, niter |-> 1, stepsize |-> 1,
              exchange |-> "partitions", sameObj |-> FALSE]
    /\ dataset = <<>>
    /\ seed = <<>>
    /\ dpc = "start"
    /\ sp = 0
    /\ jn = 0
    /\ plotted = FALSE
    /\ results = {}
    /\ WorkersIdle

\* logp(shard, x) taking its local rows (lines 50-52)
AssignShard(rank) ==
    /\ rank \notin {a.rank : a \in sh.assigned}
    /\ LET range == data_idx_range(sh.N, sh.num_shards, rank)
       IN  sh' = [sh EXCEPT !.assigned =
                    @ \cup {[rank |-> rank, range |-> range,
                             rows |-> SliceRows(sh.N, range)]}]
    /\ UNCHANGED <<inp, drv, results, wrk>>

ShardNext ==
    \E rank \in 0 .. (sh.num_shards - 1) : AssignShard(rank)

ShardSpec ==
    ShardInit /\ [][ShardNext]_vars

\* ========================================================================
\* Properties
\* ========================================================================
NP == cfg.nparticles
NI == cfg.niter

Collective ==
    cfg.exchange \in {"all_particles", "all_scores"} /\ cfg.nproc >= 2

AnyFailed ==
    \E r \in Ranks : wpc[r] = "failed"

FloorDiv(n, k) ==
    CHOOSE q \in 0 .. n : q * k <= n /\ n < (q + 1) * k

\* C1: every rank's range is [r*s, (r+1)*s) with s = floor(N/num_shards); each
\* shard holds exactly s rows, all below N; shards of different ranks are
\* disjoint; rows from num_shards*s on belong to no shard.
ShardPartition ==
    LET s == FloorDiv(sh.N, sh.num_shards)
    IN  /\ \A a \in sh.assigned :
            /\ a.range = <<a.rank * s, (a.rank + 1) * s>>
            /\ a.rows = (a.rank * s) .. ((a.rank + 1) * s - 1)
            /\ Cardinality(a.rows) = s
            /\ \A i \in a.rows : i < sh.N
        /\ \A a, b \in sh.assigned : a.rank # b.rank => a.rows \cap b.rows = {}
        /\ \A i \in 0 .. (sh.N - 1) :
            i >= sh.num_shards * s => \A a \in sh.assigned : i \notin a.rows

ShardPartitionWitness ==
    /\ sh.num_shards >= 2
    /\ sh.N % sh.num_shards # 0
    /\ sh.N > sh.num_shards
    /\ Cardinality(sh.assigned) = sh.num_shards

\* C2 as stated: under all_particles/all_scores a worker's exchange of
\* iteration k precedes its update of iteration k, and no worker BEGINS
\* (contributes to) the exchange of iteration k+1 before every worker has
\* finished the update of iteration k.
LockStepBegin ==
    Collective =>
        \A r \in Ranks :
            /\ l[r] <= xdone[r]
            /\ (wpc[r] = "update" => xdone[r] = l[r] + 1)
            /\ \A p \in Ranks : Len(msgs[r]) >= 2 => l[p] >= Len(msgs[r]) - 1

\* C2 amended: under all_particles/all_scores a worker's exchange of
\* iteration k precedes its update of iteration k, and no worker COMPLETES
\* the exchange of iteration k+1 before every worker has finished the update
\* of iteration k.
LockStepComplete ==
    Collective =>
        \A r \in Ranks :
            /\ l[r] <= xdone[r]
            /\ (wpc[r] = "update" => xdone[r] = l[r] + 1)
            /\ \A p \in Ranks : xdone[r] >= 2 => l[p] >= xdone[r] - 1

LockStepWitness ==
    /\ Collective
    /\ \E r \in Ranks : xdone[r] >= 2 /\ wpc[r] = "update"

\* C3: the constructed sampler exchanges particles exactly under
\* all_particles/all_scores and scores exactly under all_scores.
ModeSelection ==
    \A r \in Ranks :
        flags[r].constructed =>
            /\ flags[r].exchange_particles <=> cfg.exchange \in {"all_particles", "all_scores"}
            /\ flags[r].exchange_scores <=> cfg.exchange = "all_scores"

BadConfig ==
    \/ cfg.exchange \notin Modes
    \/ cfg.nparticles <= 0
    \/ cfg.niter <= 0
    \/ NumShards > Len(dataset)

\* C4: with an invalid mode, a particle or iteration count <= 0, or more
\* shards than rows, no sampler is constructed, make_step is never called,
\* and nothing is written or plotted.
ConfigErrorsRejected ==
    BadConfig =>
        /\ \A r \in Ranks : ~flags[r].constructed /\ steps[r] = 0
        /\ \A f \in results : ~f.fresh
        /\ ~plotted

\* C5: make_plots is reached only when every worker finished all niter steps
\* and wrote its result file.
AllErrorsAbort ==
    plotted =>
        \A r \in Ranks :
            /\ wpc[r] = "exited"
            /\ steps[r] = NI
            /\ [rank |-> r, fresh |-> TRUE] \in results

\* C6 as stated: once a worker has failed before completing its niter steps,
\* no peer that has not completed yet ever completes its niter steps.
FailureBlocksPeers ==
    [][\A r, p \in Ranks :
        (r # p /\ wpc[r] = "failed" /\ l[r] < NI /\ l[p] < NI) => l'[p] < NI]_vars

\* C6 amended: under all_particles/all_scores with at least two workers, when
\* a worker has failed having contributed to fewer than niter exchanges, no
\* worker completes an exchange the failed worker never joined, so none
\* finishes its niter steps.
FailureBlocksExchange ==
    Collective =>
        \A r, p \in Ranks :
            (wpc[r] = "failed" /\ Len(msgs[r]) < NI) =>
                /\ xdone[p] <= Len(msgs[r])
                /\ l[p] <= Len(msgs[r])
                /\ wpc[p] \notin {"save", "exited"}

FailureBlocksWitness ==
    /\ Collective
    /\ \E r, p \in Ranks :
        /\ wpc[r] = "failed"
        /\ Len(msgs[r]) = 1
        /\ wpc[p] = "wait"
        /\ Len(msgs[p]) = 2

\* the populations of a sampler that runs alone on `rows`: after 0 .. k steps
LocalStep(particles, rows, stepsize) ==
    LET S == [j \in 1 .. Len(particles) |-> (0 - particles[j]) + SumSeq(rows)]
    IN  [i \in 1 .. Len(particles) |-> SVGDUpdate(particles[i], particles, S, stepsize)]

RECURSIVE LocalTrajectory(_, _, _, _)
LocalTrajectory(particles, rows, stepsize, k) ==
    IF k = 0 THEN <<particles>>
    ELSE LET before == LocalTrajectory(particles, rows, stepsize, k - 1)
         IN  Append(before, LocalStep(before[k], rows, stepsize))

OwnRows(r) ==
    LET s == Len(dataset) \div cfg.nproc
    IN  LocalRows(dataset, r * s, (r + 1) * s)

\* C7: with one shard, in every exchange mode the worker never enters an
\* exchange and its populations after 0, 1, ... steps are those of a sampler
\* running alone on the whole dataset (the same in the three modes).
OneShardEquivalence ==
    cfg.nproc = 1 =>
        /\ msgs[0] = <<>>
        /\ wpc[0] # "wait"
        /\ flags[0].constructed =>
            hist[0] = LocalTrajectory(InitialParticles(seed[0], NP), dataset,
                                      cfg.stepsize, Len(hist[0]) - 1)

OneShardWitness ==
    /\ cfg.nproc = 1
    /\ cfg.exchange = "all_scores"
    /\ cfg.sameObj
    /\ Len(dataset) >= 1
    /\ NI >= 2
    /\ wpc[0] = "exited"

\* C8: under partitions the populations of worker r after 0, 1, ... steps are
\* a function of r's initial population, r's own shard rows and the step size
\* alone, whatever the other workers' seeds, rows and scheduling; and a step
\* that changes one worker's population changes no other worker's.
PartitionsIsolation ==
    /\ [](cfg.exchange = "partitions" =>
            \A r \in Ranks :
                /\ msgs[r] = <<>>
                /\ flags[r].constructed =>
                    hist[r] = LocalTrajectory(InitialParticles(seed[r], NP), OwnRows(r),
                                              cfg.stepsize, Len(hist[r]) - 1))
    /\ [][cfg.exchange = "partitions" =>
            \A r, p \in Ranks : (r # p /\ pop'[r] # pop[r]) => pop'[p] = pop[p]]_vars

PartitionsIsolationWitness ==
    /\ cfg.exchange = "partitions"
    /\ \E r, p \in Ranks :
        /\ r # p
        /\ seed[r] # seed[p]
        /\ OwnRows(r) # OwnRows(p)
        /\ l[r] = 2
        /\ l[p] = 1

\* C9: a worker that got through its loop with niter >= 1 called make_step
\* niter times and recorded nparticles rows for each timestep 0..niter and no
\* others; the rows of timestep t are, in order, its population after t steps.
SnapshotTrace ==
    \A r \in Ranks :
        (wpc[r] \in {"save", "exited"} /\ NI >= 1) =>
            /\ steps[r] = NI
            /\ Len(hist[r]) = NI + 1
            /\ Len(data[r]) = NP * (NI + 1)
            /\ \A t \in 0 .. NI :
                /\ Len(hist[r][t + 1]) = NP
                /\ \A i \in 1 .. NP :
                    data[r][t * NP + i] = [timestep |-> t, value |-> hist[r][t + 1][i]]

SnapshotTraceWitness ==
    \E r \in Ranks :
        /\ wpc[r] = "exited"
        /\ NI >= 2
        /\ NP >= 2
        /\ cfg.exchange = "all_particles"
        /\ cfg.nproc >= 2
        /\ hist[r][1] # hist[r][2]

PlotsAfterAll ==
    (plotted /\ cfg.nproc >= 2) =>
        /\ \A r \in Ranks : Terminated(r)
        /\ ~AnyFailed =>
            /\ \A r \in Ranks : wpc[r] = "exited" /\ steps[r] = NI
            /\ results = {[rank |-> r, fresh |-> TRUE] : r \in Ranks}

\* C10: with nproc >= 2, make_plots runs only after every worker process has
\* terminated, and when none failed the results then hold exactly one file per
\* rank, each written in this run; under fair scheduling a run in which no
\* worker fails reaches make_plots with every worker finished.
CompletionAndJoin ==
    /\ []PlotsAfterAll
    /\ <>(plotted /\ \A r \in Ranks : wpc[r] = "exited")

CompletionWitness ==
    /\ plotted
    /\ cfg.nproc >= 2
    /\ ~AnyFailed
    /\ cfg.exchange = "all_scores"
    /\ NI >= 2

====
